---- MODULE Spec2Model ----
(***************************************************************************)
(* PrivateKeyLoader (src/src/PrivateKeyLoader.ts): the orchestration of a  *)
(* user's private key between an in-memory cache, a durable local key      *)
(* entry storage and a password-protected cloud backup (Keyknox).          *)
(*                                                                         *)
(* One loader instance, one identity.  Every public method is one action;  *)
(* the collaborators (brain-key derivation, cloud key storage, local key   *)
(* entry storage, token provider) are modelled by their contracts and may  *)
(* fail at every call the loader makes (the `fault' input of an action).   *)
(*                                                                         *)
(* Spec     lets every collaborator call fail and records the last call.   *)
(* SpecSeq  is the fault-free runs, and records the last two calls.        *)
(* SpecConc interleaves fault-free calls of the local methods and restore  *)
(*          at their await points.                                         *)
(***************************************************************************)
EXTENDS Integers, Sequences, FiniteSets, TLC

VARIABLES
    cachedPrivateKey,   \* this.cachedPrivateKey: a key handle or Null
    localStorage,       \* the durable entry stored under this.identity, or NoEntry
    cloud,              \* the cloud backup record of this.identity, or NoRecord
    last,               \* the last completed call: method, inputs, state before, outcome, collaborator calls
    prev,               \* history: the call completed before `last' (kept in fault-free runs)
    scenario,           \* history: number of steps of the rotation scenario just performed
    failures,           \* whether collaborator calls may fail in this run
    tasks,              \* the concurrently invoked calls: where each is suspended, and its locals
    overlapped          \* history: some call was invoked while another was in flight

vars == <<cachedPrivateKey, localStorage, cloud, last, prev, scenario, failures,
          tasks, overlapped>>

----------------------------------------------------------------------------
(* Bounds                                                                  *)

NumKeys == 2
NumPasswords == 2
NumTasks == 2

----------------------------------------------------------------------------
(* Values                                                                  *)

identity == "alice"

PasswordNames == <<"alpha", "beta", "gamma", "delta">>
Passwords == {PasswordNames[i] : i \in 1..NumPasswords}

\* Raw private key material: three bytes per key, distinct keys differ.
KeyBytes(i) == <<i, (7 * i + 100) % 256, 255 - i>>

\* A private key handle (IPrivateKey), opaque but for its material.
KeyHandle(bytes) == [kind |-> "key", bytes |-> bytes]
Keys == {KeyHandle(KeyBytes(i)) : i \in 1..NumKeys}

Null == [kind |-> "null"]
NoEntry == [kind |-> "absent"]
NoRecord == [kind |-> "none"]

\* Error names
NoError == "none"
WrongKeyknoxPasswordError == "WrongKeyknoxPasswordError"
PrivateKeyNoBackupError == "PrivateKeyNoBackupError"
CloudEntryDoesntExistError == "CloudEntryDoesntExistError"
VirgilCryptoError == "VirgilCryptoError"
RNVirgilCryptoError == "RNVirgilCryptoError"
TransportError == "Error"

----------------------------------------------------------------------------
(* virgilCrypto.exportPrivateKey(key).toString('base64') and               *)
(* virgilCrypto.importPrivateKey({ value, encoding: 'base64' })            *)

\* base64 of a three-byte group: four 6-bit digits
Base64Encode(bytes) ==
    LET n == bytes[1] * 65536 + bytes[2] * 256 + bytes[3]
    IN  <<n \div 262144, (n \div 4096) % 64, (n \div 64) % 64, n % 64>>

Base64Decode(digits) ==
    LET n == digits[1] * 262144 + digits[2] * 4096 + digits[3] * 64 + digits[4]
    IN  <<n \div 65536, (n \div 256) % 256, n % 256>>

exportPrivateKey(privateKey) == Base64Encode(privateKey.bytes)

importPrivateKey(rawKeyData) == KeyHandle(Base64Decode(rawKeyData))

----------------------------------------------------------------------------
(* Collaborator contracts                                                  *)

\* utils/brainkey generateBrainPair: a keypair that is a function of the password
BrainPair(pwd) ==
    [privateKey |-> <<"brain-private", pwd>>, publicKey |-> <<"brain-public", pwd>>]

\* the private key opens what was encrypted for the public key of the same pair
Decrypts(privateKey, publicKey) == privateKey[2] = publicKey[2]

Call(fn, arg) == [fn |-> fn, arg |-> arg]

\* CloudKeyStorage.retrieveCloudEntries: pull and decrypt the identity's record;
\* no record opens as an empty storage, a record for another keypair fails to
\* decrypt.
retrieveCloudEntries(keyPair, record) ==
    IF record = NoRecord THEN NoError
    ELSE IF Decrypts(keyPair.privateKey, record.recipient) THEN NoError
    ELSE VirgilCryptoError

\* CloudKeyStorage.storeEntry(name, data): the record, encrypted for the session's pair
storeEntry(keyPair, data) ==
    [kind |-> "record", name |-> identity, recipient |-> keyPair.publicKey, data |-> data]

\* CloudKeyStorage.updateRecipients: same content, new recipient
updateRecipients(record, newKeyPair) ==
    IF record = NoRecord THEN NoRecord
    ELSE [record EXCEPT !.recipient = newKeyPair.publicKey]

\* IKeyEntryStorage.save({ name, value })
StorageEntry(value) == [kind |-> "entry", name |-> identity, value |-> value]

\* CloudKeyStorage.deleteEntry(name): the store's signal when there is no entry
deleteEntry(record) ==
    IF record = NoRecord THEN CloudEntryDoesntExistError ELSE NoError

\* CloudKeyStorage.retrieveEntry(name): the same signal, thrown synchronously
retrieveEntry(record) ==
    IF record = NoRecord THEN CloudEntryDoesntExistError ELSE NoError

----------------------------------------------------------------------------
(* Outcome of a call: the state it leaves and what the caller sees         *)

Ack == [kind |-> "ack"]
Bool(b) == [kind |-> "bool", b |-> b]

Outcome(cached, local, record, error, value, calls) ==
    [cached |-> cached, local |-> local, cloud |-> record,
     error |-> error, value |-> value, calls |-> calls]

\* a rejection that leaves the state as it is
Rejected(error, calls) ==
    Outcome(cachedPrivateKey, localStorage, cloud, error, Null, calls)

----------------------------------------------------------------------------
(* Private helpers of the loader                                           *)

\* variant: every failure of the delete is classified as no-backup
handleResetError_Any(e) == PrivateKeyNoBackupError

\* handleResetError (lines 105-110)
handleResetError(e) ==
    IF e = CloudEntryDoesntExistError THEN PrivateKeyNoBackupError ELSE e

\* variant: the catch clause rethrows what it caught
handleOpenError_Rethrow(e) == e

\* variant: the catch clause classifies whatever it caught
handleOpenError_Any(e) == WrongKeyknoxPasswordError

\* the catch clause of getStorage (lines 135-140)
handleOpenError(e) ==
    IF e = VirgilCryptoError \/ e = RNVirgilCryptoError
    THEN WrongKeyknoxPasswordError
    ELSE e

\* generateBrainPair (lines 112-119)
generateBrainPair(pwd) == BrainPair(pwd)

\* getStorage (lines 121-142): derive the pair, open the storage, sync it
getStorage(pwd, fault) ==
    LET derive == <<Call("generateBrainPair", pwd)>>
        open == derive \o <<Call("retrieveCloudEntries", pwd)>>
        keyPair == generateBrainPair(pwd)
        thrown == IF fault = "retrieveCloudEntries" THEN TransportError
                  ELSE retrieveCloudEntries(keyPair, cloud)
    IN  IF fault = "generateBrainPair"
        THEN [error |-> TransportError, calls |-> derive, keyPair |-> keyPair]
        ELSE IF thrown # NoError
        THEN [error |-> handleOpenError(thrown), calls |-> open, keyPair |-> keyPair]
        ELSE [error |-> NoError, calls |-> open, keyPair |-> keyPair]

\* importAndCachePrivateKey (lines 144-150): the handle that is cached and returned
importAndCachePrivateKey(rawKeyData) == importPrivateKey(rawKeyData)

----------------------------------------------------------------------------
(* Public methods                                                          *)

\* savePrivateKeyRemote (lines 43-49)
savePrivateKeyRemote(privateKey, password, fault) ==
    LET storage == getStorage(password, fault)
        calls == storage.calls \o <<Call("storeEntry", identity)>>
    IN  IF storage.error # NoError THEN Rejected(storage.error, storage.calls)
        ELSE IF fault = "storeEntry" THEN Rejected(TransportError, calls)
        ELSE Outcome(cachedPrivateKey, localStorage,
                     storeEntry(storage.keyPair, exportPrivateKey(privateKey)),
                     NoError, Ack, calls)

\* variant: the key is written to the device but not kept in memory
savePrivateKeyLocal_NoCache(privateKey, fault) ==
    LET calls == <<Call("localStorage.save", identity)>>
    IN  IF fault = "localStorage.save" THEN Rejected(TransportError, calls)
        ELSE Outcome(cachedPrivateKey, StorageEntry(exportPrivateKey(privateKey)), cloud,
                     NoError, Ack, calls)

\* savePrivateKeyLocal (lines 51-57): the cache is set before the save is awaited
savePrivateKeyLocal(privateKey, fault) ==
    LET calls == <<Call("localStorage.save", identity)>>
    IN  IF fault = "localStorage.save"
        THEN Outcome(privateKey, localStorage, cloud, TransportError, Null, calls)
        ELSE Outcome(privateKey, StorageEntry(exportPrivateKey(privateKey)), cloud,
                     NoError, Ack, calls)

\* loadLocalPrivateKey (lines 59-64)
loadLocalPrivateKey(fault) ==
    LET calls == <<Call("localStorage.load", identity)>>
    IN  IF cachedPrivateKey # Null
        THEN Outcome(cachedPrivateKey, localStorage, cloud, NoError, cachedPrivateKey, <<>>)
        ELSE IF fault = "localStorage.load" THEN Rejected(TransportError, calls)
        ELSE IF localStorage = NoEntry
        THEN Outcome(cachedPrivateKey, localStorage, cloud, NoError, Null, calls)
        ELSE LET key == importAndCachePrivateKey(localStorage.value)
             IN  Outcome(key, localStorage, cloud, NoError, key, calls)

\* variant: the entry is removed from the device but the key stays in memory
resetLocalPrivateKey_KeepsCache(fault) ==
    LET calls == <<Call("localStorage.remove", identity)>>
    IN  IF fault = "localStorage.remove" THEN Rejected(TransportError, calls)
        ELSE Outcome(cachedPrivateKey, NoEntry, cloud, NoError, Ack, calls)

\* resetLocalPrivateKey (lines 66-69)
resetLocalPrivateKey(fault) ==
    LET calls == <<Call("localStorage.remove", identity)>>
    IN  IF fault = "localStorage.remove" THEN Rejected(TransportError, calls)
        ELSE Outcome(Null, NoEntry, cloud, NoError, Ack, calls)

\* resetPrivateKeyBackup (lines 71-74)
resetPrivateKeyBackup(password, fault) ==
    LET storage == getStorage(password, fault)
        calls == storage.calls \o <<Call("deleteEntry", identity)>>
        thrown == IF fault = "deleteEntry" THEN TransportError ELSE deleteEntry(cloud)
    IN  IF storage.error # NoError THEN Rejected(storage.error, storage.calls)
        ELSE IF thrown # NoError THEN Rejected(handleResetError(thrown), calls)
        ELSE Outcome(cachedPrivateKey, localStorage, NoRecord, NoError, Ack, calls)

\* variant: the wipe also clears the local tiers
resetAll_ClearsLocal(fault) ==
    LET token == <<Call("getToken", "keyknox:delete")>>
        calls == token \o <<Call("resetValue", "keyknox:delete")>>
    IN  IF fault = "getToken" THEN Rejected(TransportError, token)
        ELSE IF fault = "resetValue" THEN Rejected(TransportError, calls)
        ELSE Outcome(Null, NoEntry, NoRecord, NoError, Ack, calls)

\* resetAll (lines 76-82)
resetAll(fault) ==
    LET token == <<Call("getToken", "keyknox:delete")>>
        calls == token \o <<Call("resetValue", "keyknox:delete")>>
    IN  IF fault = "getToken" THEN Rejected(TransportError, token)
        ELSE IF fault = "resetValue" THEN Rejected(TransportError, calls)
        ELSE Outcome(cachedPrivateKey, localStorage, NoRecord, NoError, Ack, calls)

\* variant: the retrieved key is cached in memory but not written to the device
restorePrivateKey_NoLocalSave(password, fault) ==
    LET storage == getStorage(password, fault)
        retrieve == storage.calls \o <<Call("retrieveEntry", identity)>>
    IN  IF storage.error # NoError THEN Rejected(storage.error, storage.calls)
        ELSE IF retrieveEntry(cloud) # NoError
        THEN Rejected(retrieveEntry(cloud), retrieve)
        ELSE LET key == importAndCachePrivateKey(cloud.data)
             IN  Outcome(key, localStorage, cloud, NoError, key, retrieve)

\* variant: the key is imported and returned but not kept in memory
restorePrivateKey_NoCache(password, fault) ==
    LET storage == getStorage(password, fault)
        retrieve == storage.calls \o <<Call("retrieveEntry", identity)>>
        calls == retrieve \o <<Call("localStorage.save", identity)>>
    IN  IF storage.error # NoError THEN Rejected(storage.error, storage.calls)
        ELSE IF retrieveEntry(cloud) # NoError
        THEN Rejected(retrieveEntry(cloud), retrieve)
        ELSE IF fault = "localStorage.save" THEN Rejected(TransportError, calls)
        ELSE Outcome(cachedPrivateKey, StorageEntry(cloud.data), cloud, NoError,
                     importPrivateKey(cloud.data), calls)

\* variant: the retrieved entry is deleted from the cloud once it is restored
restorePrivateKey_Consumes(password, fault) ==
    LET storage == getStorage(password, fault)
        retrieve == storage.calls \o <<Call("retrieveEntry", identity)>>
        calls == retrieve \o <<Call("localStorage.save", identity)>>
    IN  IF storage.error # NoError THEN Rejected(storage.error, storage.calls)
        ELSE IF retrieveEntry(cloud) # NoError
        THEN Rejected(retrieveEntry(cloud), retrieve)
        ELSE IF fault = "localStorage.save" THEN Rejected(TransportError, calls)
        ELSE LET key == importAndCachePrivateKey(cloud.data)
             IN  Outcome(key, StorageEntry(cloud.data), NoRecord, NoError, key, calls)

\* variant: the in-memory key is dropped before the storage is opened
restorePrivateKey_ClearsFirst(password, fault) ==
    LET storage == getStorage(password, fault)
        retrieve == storage.calls \o <<Call("retrieveEntry", identity)>>
        calls == retrieve \o <<Call("localStorage.save", identity)>>
    IN  IF storage.error # NoError
        THEN Outcome(Null, localStorage, cloud, storage.error, Null, storage.calls)
        ELSE IF retrieveEntry(cloud) # NoError
        THEN Outcome(Null, localStorage, cloud, retrieveEntry(cloud), Null, retrieve)
        ELSE IF fault = "localStorage.save"
        THEN Outcome(Null, localStorage, cloud, TransportError, Null, calls)
        ELSE LET key == importAndCachePrivateKey(cloud.data)
             IN  Outcome(key, StorageEntry(cloud.data), cloud, NoError, key, calls)

\* restorePrivateKey (lines 84-89)
restorePrivateKey(password, fault) ==
    LET storage == getStorage(password, fault)
        retrieve == storage.calls \o <<Call("retrieveEntry", identity)>>
        calls == retrieve \o <<Call("localStorage.save", identity)>>
    IN  IF storage.error # NoError THEN Rejected(storage.error, storage.calls)
        ELSE IF retrieveEntry(cloud) # NoError
        THEN Rejected(retrieveEntry(cloud), retrieve)
        ELSE IF fault = "localStorage.save" THEN Rejected(TransportError, calls)
        ELSE LET key == importAndCachePrivateKey(cloud.data)
             IN  Outcome(key, StorageEntry(cloud.data), cloud, NoError, key, calls)

\* variant: the recipients are rotated to the pair of the old password
changePassword_OldPair(oldPwd, newPwd, fault) ==
    LET storage == getStorage(oldPwd, fault)
        derive == storage.calls \o <<Call("generateBrainPair", newPwd)>>
        calls == derive \o <<Call("updateRecipients", newPwd)>>
        keyPair == generateBrainPair(oldPwd)
    IN  IF storage.error # NoError THEN Rejected(storage.error, storage.calls)
        ELSE IF fault = "generateBrainPair2" THEN Rejected(TransportError, derive)
        ELSE IF fault = "updateRecipients" THEN Rejected(TransportError, calls)
        ELSE Outcome(cachedPrivateKey, localStorage, updateRecipients(cloud, keyPair),
                     NoError, Ack, calls)

\* variant: the new pair is derived before the session is opened with the old one
changePassword_DeriveFirst(oldPwd, newPwd, fault) ==
    LET storage == getStorage(oldPwd, fault)
        derive == <<Call("generateBrainPair", newPwd)>>
        calls == derive \o storage.calls \o <<Call("updateRecipients", newPwd)>>
        keyPair == generateBrainPair(newPwd)
    IN  IF fault = "generateBrainPair2" THEN Rejected(TransportError, derive)
        ELSE IF storage.error # NoError
        THEN Rejected(storage.error, derive \o storage.calls)
        ELSE IF fault = "updateRecipients" THEN Rejected(TransportError, calls)
        ELSE Outcome(cachedPrivateKey, localStorage, updateRecipients(cloud, keyPair),
                     NoError, Ack, calls)

\* changePassword (lines 91-99)
changePassword(oldPwd, newPwd, fault) ==
    LET storage == getStorage(oldPwd, fault)
        derive == storage.calls \o <<Call("generateBrainPair", newPwd)>>
        calls == derive \o <<Call("updateRecipients", newPwd)>>
        keyPair == generateBrainPair(newPwd)
    IN  IF storage.error # NoError THEN Rejected(storage.error, storage.calls)
        ELSE IF fault = "generateBrainPair2" THEN Rejected(TransportError, derive)
        ELSE IF fault = "updateRecipients" THEN Rejected(TransportError, calls)
        ELSE Outcome(cachedPrivateKey, localStorage, updateRecipients(cloud, keyPair),
                     NoError, Ack, calls)

\* hasPrivateKey (lines 101-103)
hasPrivateKey(fault) ==
    LET calls == <<Call("localStorage.exists", identity)>>
    IN  IF fault = "localStorage.exists" THEN Rejected(TransportError, calls)
        ELSE Outcome(cachedPrivateKey, localStorage, cloud, NoError,
                     Bool(localStorage # NoEntry), calls)

----------------------------------------------------------------------------
(* State machine                                                           *)

None == "-"

Invocation(op, key, pwd, newPwd, fault) ==
    [op |-> op, key |-> key, pwd |-> pwd, newPwd |-> newPwd, fault |-> fault]

\* The rotation scenario: save K1 under "alpha"; restore "alpha"; restore "beta";
\* changePassword("alpha", "beta"); restore "beta"; restore "alpha".
K1 == KeyHandle(KeyBytes(1))
ScenarioCalls ==
    <<Invocation("savePrivateKeyRemote", K1, "alpha", None, "none"),
      Invocation("restorePrivateKey", Null, "alpha", None, "none"),
      Invocation("restorePrivateKey", Null, "beta", None, "none"),
      Invocation("changePassword", Null, "alpha", "beta", "none"),
      Invocation("restorePrivateKey", Null, "beta", None, "none"),
      Invocation("restorePrivateKey", Null, "alpha", None, "none")>>

\* how far the calls made so far follow the scenario, which starts with a
\* successful save on an identity without a backup
ScenarioAfter(inv, out) ==
    IF scenario >= 1 /\ scenario < Len(ScenarioCalls) /\ inv = ScenarioCalls[scenario + 1]
    THEN scenario + 1
    ELSE IF inv = ScenarioCalls[1] /\ cloud = NoRecord /\ out.error = NoError
    THEN 1
    ELSE 0

\* the calls of a method that may fail in this run
Faults(points) == IF failures THEN {"none"} \cup points ELSE {"none"}

\* a call completes: the state it leaves, and what is recorded of it
Complete(inv, out) ==
    /\ cachedPrivateKey' = out.cached
    /\ localStorage' = out.local
    /\ cloud' = out.cloud
    /\ last' = [op |-> inv.op, key |-> inv.key, pwd |-> inv.pwd, newPwd |-> inv.newPwd,
                fault |-> inv.fault,
                before |-> [cached |-> cachedPrivateKey, local |-> localStorage,
                            cloud |-> cloud],
                error |-> out.error, value |-> out.value, calls |-> out.calls]
    /\ prev' = IF failures THEN prev ELSE last
    /\ scenario' = ScenarioAfter(inv, out)
    /\ UNCHANGED <<failures, tasks, overlapped>>

\* a call that has not been invoked
Idle == [pc |-> "idle", key |-> Null, read |-> NoEntry]

Constructed ==
    [op |-> "constructor", key |-> Null, pwd |-> None, newPwd |-> None, fault |-> "none",
     before |-> [cached |-> Null, local |-> NoEntry, cloud |-> NoRecord],
     error |-> NoError, value |-> Null, calls |-> <<>>]

\* A new loader: nothing cached in memory; the device may hold an entry and
\* the cloud a backup from an earlier session.
InitLoader ==
    /\ cachedPrivateKey = Null
    /\ localStorage \in {NoEntry} \cup {StorageEntry(exportPrivateKey(k)) : k \in Keys}
    /\ cloud \in {NoRecord} \cup
                 {storeEntry(generateBrainPair(p), exportPrivateKey(k)) :
                      p \in Passwords, k \in Keys}
    /\ last = Constructed
    /\ prev = Constructed
    /\ scenario = 0
    /\ tasks = [i \in 1..NumTasks |-> Idle]
    /\ overlapped = FALSE

Init == InitLoader /\ failures = TRUE

InitSeq == InitLoader /\ failures = FALSE

SavePrivateKeyRemote ==
    \E k \in Keys, p \in Passwords,
       f \in Faults({"generateBrainPair", "retrieveCloudEntries", "storeEntry"}) :
        Complete(Invocation("savePrivateKeyRemote", k, p, None, f),
                 savePrivateKeyRemote(k, p, f))

SavePrivateKeyLocal ==
    \E k \in Keys, f \in Faults({"localStorage.save"}) :
        Complete(Invocation("savePrivateKeyLocal", k, None, None, f),
                 savePrivateKeyLocal(k, f))

LoadLocalPrivateKey ==
    \E f \in Faults({"localStorage.load"}) :
        Complete(Invocation("loadLocalPrivateKey", Null, None, None, f),
                 loadLocalPrivateKey(f))

ResetLocalPrivateKey ==
    \E f \in Faults({"localStorage.remove"}) :
        Complete(Invocation("resetLocalPrivateKey", Null, None, None, f),
                 resetLocalPrivateKey(f))

ResetPrivateKeyBackup ==
    \E p \in Passwords,
       f \in Faults({"generateBrainPair", "retrieveCloudEntries", "deleteEntry"}) :
        Complete(Invocation("resetPrivateKeyBackup", Null, p, None, f),
                 resetPrivateKeyBackup(p, f))

ResetAll ==
    \E f \in Faults({"getToken", "resetValue"}) :
        Complete(Invocation("resetAll", Null, None, None, f), resetAll(f))

RestorePrivateKey ==
    \E p \in Passwords,
       f \in Faults({"generateBrainPair", "retrieveCloudEntries", "localStorage.save"}) :
        Complete(Invocation("restorePrivateKey", Null, p, None, f),
                 restorePrivateKey(p, f))

ChangePassword ==
    \E old \in Passwords, new \in Passwords,
       f \in Faults({"generateBrainPair", "retrieveCloudEntries",
                     "generateBrainPair2", "updateRecipients"}) :
        Complete(Invocation("changePassword", Null, old, new, f),
                 changePassword(old, new, f))

HasPrivateKey ==
    \E f \in Faults({"localStorage.exists"}) :
        Complete(Invocation("hasPrivateKey", Null, None, None, f), hasPrivateKey(f))

Next ==
    \/ SavePrivateKeyRemote
    \/ SavePrivateKeyLocal
    \/ LoadLocalPrivateKey
    \/ ResetLocalPrivateKey
    \/ ResetPrivateKeyBackup
    \/ ResetAll
    \/ RestorePrivateKey
    \/ ChangePassword
    \/ HasPrivateKey

Spec == Init /\ [][Next]_vars

SpecSeq == InitSeq /\ [][Next]_vars

----------------------------------------------------------------------------
(* Vocabulary of the properties                                            *)

PasswordOps ==
    {"savePrivateKeyRemote", "resetPrivateKeyBackup", "restorePrivateKey", "changePassword"}

\* the record exists and is readable with the pair derived from password p
RecordUnder(record, p) ==
    record # NoRecord /\ Decrypts(BrainPair(p).privateKey, record.recipient)

\* the record exists and password q does not open it
RecordNotUnder(record, q) ==
    record # NoRecord /\ ~Decrypts(BrainPair(q).privateKey, record.recipient)

Ok(call) == call.error = NoError

\* the call made the collaborator call fn
Called(call, fn) == \E i \in DOMAIN call.calls : call.calls[i].fn = fn

\* the call reached the cloud operation behind the session open
OpenNotFaulted(call) == call.fault \notin {"generateBrainPair", "retrieveCloudEntries"}

----------------------------------------------------------------------------
(* C1: whenever a cloud record exists under password p, every              *)
(* password-taking method called with another password fails, never with   *)
(* the no-backup error, and with the wrong-password error unless the       *)
(* derivation or the transport of the session open itself failed; and a    *)
(* successful savePrivateKeyRemote(k, p) leaves a record under p, so a     *)
(* restore with a wrong password after it is such a call.                  *)
C1_WrongPasswordNotNoBackup ==
    /\ (last.op \in PasswordOps /\ RecordNotUnder(last.before.cloud, last.pwd)) =>
          /\ ~Ok(last)
          /\ last.error # PrivateKeyNoBackupError
          /\ OpenNotFaulted(last) => last.error = WrongKeyknoxPasswordError
    /\ (last.op = "savePrivateKeyRemote" /\ Ok(last)) => RecordUnder(cloud, last.pwd)

C1_Witness ==
    /\ last.op \in {"restorePrivateKey", "changePassword"}
    /\ RecordNotUnder(last.before.cloud, last.pwd)
    /\ last.error = WrongKeyknoxPasswordError

----------------------------------------------------------------------------
(* C2: after changePassword(old, new) succeeds on a record saved under     *)
(* old, restore(new) succeeds and returns the key whose content the record *)
(* held, and restore(old) fails with the wrong-password error; and the     *)
(* scenario save K1 under "alpha", restore "alpha" = K1, restore "beta" =  *)
(* wrong password, changePassword("alpha", "beta"), restore "beta" = K1,   *)
(* restore "alpha" = wrong password, holds step by step.                   *)
C2_RotationThenRestore ==
    /\ ( /\ prev.op = "changePassword" /\ Ok(prev)
         /\ RecordUnder(prev.before.cloud, prev.pwd)
         /\ last.op = "restorePrivateKey" ) =>
          /\ last.pwd = prev.newPwd =>
                /\ Ok(last)
                /\ exportPrivateKey(last.value) = prev.before.cloud.data
          /\ (last.pwd = prev.pwd /\ prev.pwd # prev.newPwd) =>
                last.error = WrongKeyknoxPasswordError
    /\ scenario = 2 => (Ok(last) /\ last.value = K1)
    /\ scenario = 3 => last.error = WrongKeyknoxPasswordError
    /\ scenario = 4 => Ok(last)
    /\ scenario = 5 => (Ok(last) /\ last.value = K1)
    /\ scenario = 6 => last.error = WrongKeyknoxPasswordError

C2_Witness ==
    /\ scenario = 6
    /\ prev.op = "restorePrivateKey" /\ prev.value = K1
    /\ last.error = WrongKeyknoxPasswordError

----------------------------------------------------------------------------
(* C3: restore(password) right after a successful saveRemote(k, password)  *)
(* returns a key equivalent to k and leaves the durable entry and the      *)
(* in-memory cache holding k; and a loadLocal() right after a successful   *)
(* restore returns that key without any collaborator call (no storage      *)
(* read, no network).                                                      *)
C3_RestoreAfterSaveRemote ==
    /\ ( /\ prev.op = "savePrivateKeyRemote" /\ Ok(prev)
         /\ last.op = "restorePrivateKey" /\ last.pwd = prev.pwd ) =>
          /\ Ok(last)
          /\ last.value = prev.key
          /\ localStorage = StorageEntry(exportPrivateKey(prev.key))
          /\ cachedPrivateKey = prev.key
    /\ ( /\ prev.op = "restorePrivateKey" /\ Ok(prev)
         /\ last.op = "loadLocalPrivateKey" ) =>
          /\ Ok(last)
          /\ last.value = prev.value
          /\ last.calls = <<>>

C3_Witness ==
    /\ prev.op = "savePrivateKeyRemote" /\ Ok(prev)
    /\ last.op = "restorePrivateKey" /\ last.pwd = prev.pwd
    /\ last.before.local # NoEntry
    /\ last.before.local # localStorage
    /\ last.value = prev.key

----------------------------------------------------------------------------
(* C4: resetBackup(password) on an identity with no remote record fails    *)
(* with the no-backup error, and a delete that fails in any other way      *)
(* fails the call with that same error, never with the no-backup error.    *)
C4_ResetBackupClassification ==
    last.op = "resetPrivateKeyBackup" =>
        /\ (last.before.cloud = NoRecord /\ last.fault = "none") =>
              last.error = PrivateKeyNoBackupError
        /\ (last.fault = "deleteEntry" /\ Called(last, "deleteEntry")) =>
              last.error = TransportError
        /\ last.error = PrivateKeyNoBackupError => last.before.cloud = NoRecord

C4_Witness ==
    /\ last.op = "resetPrivateKeyBackup"
    /\ last.before.cloud = NoRecord
    /\ Called(last, "deleteEntry")
    /\ last.error = PrivateKeyNoBackupError

----------------------------------------------------------------------------
(* C5: the wrong-password error is raised only by a password-taking method *)
(* whose session open met an existing record that the derived pair does    *)
(* not open; it is never raised when no record exists, in particular not   *)
(* after resetBackup or resetAll removed the record.                       *)
C5_WrongPasswordOnlyOnMismatch ==
    /\ last.error = WrongKeyknoxPasswordError =>
          /\ last.op \in PasswordOps
          /\ RecordNotUnder(last.before.cloud, last.pwd)
    /\ (last.op \in {"resetPrivateKeyBackup", "resetAll"} /\ Ok(last)) => cloud = NoRecord

C5_Witness ==
    /\ last.op = "savePrivateKeyRemote"
    /\ last.error = WrongKeyknoxPasswordError
    /\ cloud # NoRecord

----------------------------------------------------------------------------
(* C6: restore(password) on an identity without a cloud record fails with  *)
(* the no-backup error.                                                    *)
C6_RestoreWithoutRecordIsNoBackup ==
    ( /\ last.op = "restorePrivateKey"
      /\ last.before.cloud = NoRecord
      /\ last.fault = "none" ) =>
        last.error = PrivateKeyNoBackupError

----------------------------------------------------------------------------
(* C7: a loadLocal() right after saveLocal(k) returns k from the in-memory *)
(* cache: it makes no collaborator call (no storage read, no network).     *)
C7_LoadAfterSaveLocal ==
    ( /\ prev.op = "savePrivateKeyLocal" /\ Ok(prev)
      /\ last.op = "loadLocalPrivateKey" ) =>
        /\ Ok(last)
        /\ last.value = prev.key
        /\ last.calls = <<>>

C7_Witness ==
    /\ prev.op = "savePrivateKeyLocal" /\ Ok(prev)
    /\ prev.before.cached # Null /\ prev.before.cached # prev.key
    /\ last.op = "loadLocalPrivateKey"
    /\ last.value = prev.key

----------------------------------------------------------------------------
(* C8: after a successful resetLocal(), whatever the local state was       *)
(* before it, the next loadLocal() returns absent and the next hasKey()    *)
(* returns false.                                                          *)
C8_AbsentAfterResetLocal ==
    (prev.op = "resetLocalPrivateKey" /\ Ok(prev)) =>
        /\ last.op = "loadLocalPrivateKey" => (Ok(last) /\ last.value = Null)
        /\ last.op = "hasPrivateKey" => (Ok(last) /\ last.value = Bool(FALSE))

C8_Witness ==
    /\ prev.op = "resetLocalPrivateKey" /\ Ok(prev)
    /\ prev.before.cached # Null /\ prev.before.local # NoEntry
    /\ last.op = "loadLocalPrivateKey"
    /\ last.value = Null

----------------------------------------------------------------------------
(* C9, as claimed: saveLocal, loadLocal, resetLocal, resetAll, restore and *)
(* hasKey all leave the cloud record as it was.                            *)
C9_OnlyThreeOpsTouchCloud ==
    last.op \in {"savePrivateKeyLocal", "loadLocalPrivateKey", "resetLocalPrivateKey",
                 "resetAll", "restorePrivateKey", "hasPrivateKey"} =>
        cloud = last.before.cloud

(* C9, amended: saveLocal, loadLocal, resetLocal, restore and hasKey leave *)
(* the cloud record as it was; besides saveRemote, resetBackup and         *)
(* changePassword, resetAll changes it: a successful resetAll deletes it.  *)
C9_LocalOpsAndRestoreKeepCloud ==
    /\ last.op \in {"savePrivateKeyLocal", "loadLocalPrivateKey", "resetLocalPrivateKey",
                    "restorePrivateKey", "hasPrivateKey"} =>
          cloud = last.before.cloud
    /\ (last.op = "resetAll" /\ Ok(last)) => cloud = NoRecord

C9_Witness ==
    /\ last.op = "restorePrivateKey" /\ Ok(last)
    /\ last.before.local # localStorage
    /\ cloud # NoRecord

----------------------------------------------------------------------------
(* C10, as claimed: after a successful saveRemote(k, p) as well as after a *)
(* successful restore(p), the durable entry and the in-memory key hold the *)
(* key that was written or retrieved.                                      *)
C10_LocalCacheAfterRemoteOps ==
    /\ (last.op = "savePrivateKeyRemote" /\ Ok(last)) =>
          /\ localStorage = StorageEntry(exportPrivateKey(last.key))
          /\ cachedPrivateKey = last.key
    /\ (last.op = "restorePrivateKey" /\ Ok(last)) =>
          /\ localStorage = StorageEntry(last.before.cloud.data)
          /\ cachedPrivateKey = importPrivateKey(last.before.cloud.data)

(* C10, amended: after a successful restore(p) the durable entry and the   *)
(* in-memory key hold the retrieved key; saveRemote(k, p) leaves the       *)
(* durable entry and the in-memory key as they were.                       *)
C10_LocalCacheAfterRestoreOnly ==
    /\ (last.op = "restorePrivateKey" /\ Ok(last)) =>
          /\ localStorage = StorageEntry(last.before.cloud.data)
          /\ cachedPrivateKey = importPrivateKey(last.before.cloud.data)
          /\ last.value = cachedPrivateKey
    /\ last.op = "savePrivateKeyRemote" =>
          /\ localStorage = last.before.local
          /\ cachedPrivateKey = last.before.cached

C10_Witness ==
    /\ last.op = "restorePrivateKey" /\ Ok(last)
    /\ last.before.cached # Null
    /\ last.before.cached # cachedPrivateKey
    /\ localStorage = StorageEntry(exportPrivateKey(cachedPrivateKey))

----------------------------------------------------------------------------
(* C11: saveLocal(k) changes the in-memory cache only when the durable     *)
(* write succeeded: after a saveLocal whose write failed, the cached key   *)
(* is the one from before the call.                                        *)
C11_FailedSaveLocalKeepsCache ==
    (last.op = "savePrivateKeyLocal" /\ ~Ok(last)) =>
        cachedPrivateKey = last.before.cached

----------------------------------------------------------------------------
(* C12: a failure of token acquisition, brain-key derivation, network I/O  *)
(* or the cloud service during a call makes the call fail with that same   *)
(* error: not with the wrong-password or the no-backup error, and not with *)
(* a success.                                                              *)

\* the collaborator call that a fault point names
FaultFn(fault) == IF fault = "generateBrainPair2" THEN "generateBrainPair" ELSE fault

\* the call reached its fault point: the failing collaborator call is the last it made
FaultHit(call) ==
    /\ call.fault # "none"
    /\ Len(call.calls) > 0
    /\ call.calls[Len(call.calls)].fn = FaultFn(call.fault)
    /\ call.fault = "generateBrainPair" => Len(call.calls) = 1
    /\ call.fault = "generateBrainPair2" => Len(call.calls) = 3

C12_OtherFailuresPropagate ==
    FaultHit(last) => last.error = TransportError

C12_Witness ==
    /\ last.op = "changePassword"
    /\ last.fault = "generateBrainPair2"
    /\ FaultHit(last)
    /\ last.error = TransportError
    /\ last.before.cloud # NoRecord

----------------------------------------------------------------------------
(* C13: every password-taking method first derives the pair of its         *)
(* password, then opens the session, and only then operates on the cloud:  *)
(* no store, delete, retrieve or rotate call is made unless the session    *)
(* open succeeded, and changePassword derives the pair of the new password *)
(* only after the session opened with the old one.                         *)
CloudOpFns == {"storeEntry", "deleteEntry", "retrieveEntry", "updateRecipients"}

\* the session open of the call succeeded
OpenSucceeded(call) ==
    OpenNotFaulted(call) /\ ~RecordNotUnder(call.before.cloud, call.pwd)

C13_DeriveOpenThenOperate ==
    last.op \in PasswordOps =>
        /\ Len(last.calls) >= 1
        /\ last.calls[1] = Call("generateBrainPair", last.pwd)
        /\ Len(last.calls) >= 2 => last.calls[2] = Call("retrieveCloudEntries", last.pwd)
        /\ Len(last.calls) >= 3 => OpenSucceeded(last)
        /\ \A i \in DOMAIN last.calls :
              /\ last.calls[i].fn \in CloudOpFns => i > 2
              /\ last.calls[i].fn = "retrieveCloudEntries" => i = 2
              /\ (last.calls[i].fn = "generateBrainPair" /\ i > 1) =>
                    /\ last.op = "changePassword"
                    /\ i = 3
                    /\ last.calls[i].arg = last.newPwd
              /\ last.calls[i].fn = "updateRecipients" => i = 4

C13_Witness ==
    /\ last.op = "changePassword" /\ Ok(last)
    /\ last.pwd # last.newPwd
    /\ Len(last.calls) = 4
    /\ last.before.cloud # NoRecord

----------------------------------------------------------------------------
(* C14: resetAll() derives no brain key and opens no session: it acquires  *)
(* a token scoped to service keyknox, operation delete, and then issues    *)
(* the wipe with it; it leaves the durable local entry and the in-memory   *)
(* key as they were.                                                       *)
C14_ResetAllBypassesPassword ==
    last.op = "resetAll" =>
        /\ last.calls \in {<<Call("getToken", "keyknox:delete")>>,
                           <<Call("getToken", "keyknox:delete"),
                             Call("resetValue", "keyknox:delete")>>}
        /\ Ok(last) => Len(last.calls) = 2
        /\ localStorage = last.before.local
        /\ cachedPrivateKey = last.before.cached

C14_Witness ==
    /\ last.op = "resetAll" /\ Ok(last)
    /\ last.before.cloud # NoRecord
    /\ cachedPrivateKey # Null
    /\ localStorage # NoEntry

----------------------------------------------------------------------------
(* C15: a password-taking method that fails during the derivation or the   *)
(* session open (wrong password or a propagated failure), and a            *)
(* changePassword whose derivation of the new pair fails, leave the cloud  *)
(* record, the durable local entry and the in-memory key as they were.     *)
FailedBeforeCloudOp(call) ==
    /\ call.op \in PasswordOps
    /\ ~Ok(call)
    /\ \/ Len(call.calls) <= 2
       \/ call.fault = "generateBrainPair2" /\ FaultHit(call)

C15_FailedOpenChangesNothing ==
    FailedBeforeCloudOp(last) =>
        /\ cloud = last.before.cloud
        /\ localStorage = last.before.local
        /\ cachedPrivateKey = last.before.cached

C15_Witness ==
    /\ last.op = "restorePrivateKey"
    /\ last.error = WrongKeyknoxPasswordError
    /\ cachedPrivateKey # Null
    /\ localStorage # NoEntry

----------------------------------------------------------------------------
(* C16: whenever no call is in flight, a key cached in memory is also the  *)
(* key of the durable entry, so hasKey() is true exactly when loadLocal()  *)
(* returns a key.                                                          *)
C16_CachedKeyIsDurable ==
    cachedPrivateKey # Null =>
        localStorage = StorageEntry(exportPrivateKey(cachedPrivateKey))

----------------------------------------------------------------------------
(* Concurrent calls: each call runs to its next await, and is resumed once *)
(* the awaited collaborator call has taken effect; calls of one loader     *)
(* interleave at these points.  No collaborator call fails here.           *)

InFlight(i) == tasks[i].pc \notin {"idle", "done"}

\* call i is invoked and runs to its first await
Invoke(i, pc, key) ==
    /\ tasks[i].pc = "idle"
    /\ tasks' = [tasks EXCEPT ![i] = [pc |-> pc, key |-> key, read |-> NoEntry]]
    /\ overlapped' = (overlapped \/ \E j \in DOMAIN tasks : j # i /\ InFlight(j))

\* call i, suspended at `from', goes on to `to'
Goto(i, from, to, read) ==
    /\ tasks[i].pc = from
    /\ tasks' = [tasks EXCEPT ![i] = [pc |-> to, key |-> tasks[i].key, read |-> read]]
    /\ UNCHANGED overlapped

History == <<last, prev, scenario, failures>>

\* savePrivateKeyLocal, line 52 and the call of localStorage.save (line 53)
ConcSaveLocalStart(i) ==
    \E k \in Keys :
        /\ Invoke(i, "save.await", k)
        /\ cachedPrivateKey' = k
        /\ UNCHANGED <<localStorage, cloud, History>>

\* localStorage.save takes effect and the call returns (lines 53-56)
ConcSaveLocalWrite(i) ==
    /\ Goto(i, "save.await", "done", NoEntry)
    /\ localStorage' = StorageEntry(exportPrivateKey(tasks[i].key))
    /\ UNCHANGED <<cachedPrivateKey, cloud, History>>

\* loadLocalPrivateKey, line 60 and the call of localStorage.load (line 61)
ConcLoadLocalStart(i) ==
    /\ Invoke(i, IF cachedPrivateKey # Null THEN "done" ELSE "load.await", Null)
    /\ UNCHANGED <<cachedPrivateKey, localStorage, cloud, History>>

\* localStorage.load reads the entry (line 61)
ConcLoadLocalRead(i) ==
    /\ Goto(i, "load.await", "load.resume", localStorage)
    /\ UNCHANGED <<cachedPrivateKey, localStorage, cloud, History>>

\* variant: the resumed load returns the key without caching it
ConcLoadLocalResume_NoCache(i) ==
    /\ Goto(i, "load.resume", "done", NoEntry)
    /\ UNCHANGED <<cachedPrivateKey, localStorage, cloud, History>>

\* loadLocalPrivateKey resumes (lines 62-63)
ConcLoadLocalResume(i) ==
    /\ Goto(i, "load.resume", "done", NoEntry)
    /\ cachedPrivateKey' = IF tasks[i].read = NoEntry THEN cachedPrivateKey
                           ELSE importAndCachePrivateKey(tasks[i].read.value)
    /\ UNCHANGED <<localStorage, cloud, History>>

\* resetLocalPrivateKey calls localStorage.remove (line 67)
ConcResetLocalStart(i) ==
    /\ Invoke(i, "remove.await", Null)
    /\ UNCHANGED <<cachedPrivateKey, localStorage, cloud, History>>

\* localStorage.remove takes effect (line 67)
ConcResetLocalRemove(i) ==
    /\ Goto(i, "remove.await", "remove.resume", NoEntry)
    /\ localStorage' = NoEntry
    /\ UNCHANGED <<cachedPrivateKey, cloud, History>>

\* resetLocalPrivateKey resumes (line 68)
ConcResetLocalResume(i) ==
    /\ Goto(i, "remove.resume", "done", NoEntry)
    /\ cachedPrivateKey' = Null
    /\ UNCHANGED <<localStorage, cloud, History>>

\* restorePrivateKey with the password of the record: getStorage derives the pair (line 122)
ConcRestoreStart(i) ==
    /\ \E p \in Passwords : RecordUnder(cloud, p)
    /\ Invoke(i, "restore.derive", Null)
    /\ UNCHANGED <<cachedPrivateKey, localStorage, cloud, History>>

\* getStorage resumes and awaits retrieveCloudEntries (lines 124-134)
ConcRestoreDerived(i) ==
    /\ Goto(i, "restore.derive", "restore.open", NoEntry)
    /\ UNCHANGED <<cachedPrivateKey, localStorage, cloud, History>>

\* the storage is open: retrieveEntry and the call of localStorage.save (lines 86-87)
ConcRestoreOpened(i) ==
    /\ Goto(i, "restore.open", "restore.save", StorageEntry(cloud.data))
    /\ UNCHANGED <<cachedPrivateKey, localStorage, cloud, History>>

\* localStorage.save takes effect (line 87)
ConcRestoreWrite(i) ==
    /\ Goto(i, "restore.save", "restore.resume", tasks[i].read)
    /\ localStorage' = tasks[i].read
    /\ UNCHANGED <<cachedPrivateKey, cloud, History>>

\* restorePrivateKey resumes (line 88)
ConcRestoreResume(i) ==
    /\ Goto(i, "restore.resume", "done", NoEntry)
    /\ cachedPrivateKey' = importAndCachePrivateKey(tasks[i].read.value)
    /\ UNCHANGED <<localStorage, cloud, History>>

\* A loader whose tiers agree as earlier calls left them: the device may
\* hold an entry, which an earlier load may have cached in memory.
InitConc ==
    /\ localStorage \in {NoEntry} \cup {StorageEntry(exportPrivateKey(k)) : k \in Keys}
    /\ cachedPrivateKey \in {Null} \cup
           (IF localStorage = NoEntry THEN {}
            ELSE {importPrivateKey(localStorage.value)})
    /\ cloud \in {NoRecord} \cup
                 {storeEntry(generateBrainPair(PasswordNames[1]), exportPrivateKey(k)) :
                      k \in Keys}
    /\ last = Constructed
    /\ prev = Constructed
    /\ scenario = 0
    /\ failures = FALSE
    /\ tasks = [i \in 1..NumTasks |-> Idle]
    /\ overlapped = FALSE

NextConc ==
    \E i \in 1..NumTasks :
        \/ ConcSaveLocalStart(i)
        \/ ConcSaveLocalWrite(i)
        \/ ConcLoadLocalStart(i)
        \/ ConcLoadLocalRead(i)
        \/ ConcLoadLocalResume(i)
        \/ ConcResetLocalStart(i)
        \/ ConcResetLocalRemove(i)
        \/ ConcResetLocalResume(i)
        \/ ConcRestoreStart(i)
        \/ ConcRestoreDerived(i)
        \/ ConcRestoreOpened(i)
        \/ ConcRestoreWrite(i)
        \/ ConcRestoreResume(i)

SpecConc == InitConc /\ [][NextConc]_vars

----------------------------------------------------------------------------
(* C17, as claimed: once all the concurrently invoked calls have           *)
(* completed, the in-memory key and the durable entry agree: both are      *)
(* absent, or both hold the same key.                                      *)
TiersAgree ==
    \/ cachedPrivateKey = Null /\ localStorage = NoEntry
    \/ /\ cachedPrivateKey # Null
       /\ localStorage = StorageEntry(exportPrivateKey(cachedPrivateKey))

AllCompleted ==
    /\ \A i \in DOMAIN tasks : ~InFlight(i)
    /\ \E i \in DOMAIN tasks : tasks[i].pc = "done"

C17_TiersAgreeWhenAllCompleted == AllCompleted => TiersAgree

(* C17, amended: the tiers agree once all calls have completed provided    *)
(* no call was invoked while another was in flight; calls that overlap can *)
(* leave the tiers different.                                              *)
C17_TiersAgreeWhenSerialized == (AllCompleted /\ ~overlapped) => TiersAgree

C17_Witness ==
    /\ \A i \in DOMAIN tasks : tasks[i].pc = "done"
    /\ ~overlapped
    /\ cachedPrivateKey # Null
    /\ TiersAgree

====
